---- MODULE Spec2Model ----
(***************************************************************************)
(* WAL redo (pageserver/src/walredo/mod.rs).                               *)
(*                                                                         *)
(* Caller threads call WalRedoManager::request_redo on either the          *)
(* DummyRedoManager or one PostgresRedoManager.  The PostgresRedoManager   *)
(* guards an Option<PostgresRedoProcess> with a std Mutex, launches the    *)
(* postgres --wal-redo child on first use and exchanges one request for    *)
(* one page over the child's stdin/stdout, each I/O step under TIMEOUT.    *)
(*                                                                         *)
(* Bytes on the child's stdout are kept as runs [src, n]: n bytes that the *)
(* engine produced in response to request src (src = 0: bytes produced     *)
(* from input that mixes several requests).  A page is a sequence of runs. *)
(***************************************************************************)
EXTENDS Integers, Sequences, FiniteSets, TLC

\* ---------------------------------------------------------------- bounds
NThreads == 2
MaxCalls == 2
MaxRecords == 2
StdinCap == 2
EmitParts == 2
TimeSteps == 2

\* ------------------------------------------------------ program constants
TIMEOUT == 20
BLCKSZ == 8192

Threads == 1..NThreads
None == 0

VARIABLES
    pc,         \* per thread: position inside request_redo
    call,       \* per thread: the call in progress (manager, request)
    ret,        \* per thread: the value request_redo returns
    cause,      \* per thread: which step of launch / lock failed, if any
    ncalls,     \* number of request_redo calls made so far
    holder,     \* Mutex: the thread that holds the guard, or None
    poisoned,   \* Mutex: a thread panicked while holding the guard
    process,    \* Option<PostgresRedoProcess>: None or the handle's identity
    spawned,    \* number of postgres --wal-redo children spawned so far
    fin,        \* per thread: state of the f_stdin future
    fout,       \* per thread: state of the f_stdout future
    wpos,       \* per thread: units of the encoded request written so far
    buf,        \* per thread: bytes read_exact has placed in buf so far
    elapsed,    \* per thread: time since the exchange's first poll
    wdone,      \* per thread: elapsed time at which write_all completed
    stdin,      \* child's stdin pipe: units written and not yet consumed
    stdinOpen,  \* the child still has its stdin open
    stdout,     \* child's stdout pipe: runs emitted and not yet read
    stdoutOpen, \* the child still has its stdout open
    pending,    \* engine: responses it still has to emit
    cur,        \* engine: requests whose units make up the message being parsed
    counter,    \* WAL_REDO_RECORD_COUNTER
    replayed,   \* per thread: what this call has added to the counter
    waitObs,    \* number of WAL_REDO_WAIT_TIME observations
    redoObs,    \* number of WAL_REDO_TIME observations
    stderrTask, \* the f_stderr task: not spawned, in its loop, or ended
    stderrPipe, \* child's stderr pipe: lines written and not yet read
    stderrOpen, \* the child still has its stderr open
    stderrFault,\* reads of the child's stderr fail with an I/O error
    stderrLines,\* number of lines the child has written to its stderr
    errorLog,   \* number of lines forwarded with error!
    debugLog,   \* number of debug! messages of the stderr loop
    driving     \* a block_on of the runtime is waiting on the exchange

callerVars == <<pc, call, ret, cause, ncalls>>
managerVars == <<holder, poisoned, process, spawned>>
exchangeVars == <<fin, fout, wpos, buf, elapsed, wdone>>
engineVars == <<stdin, stdinOpen, stdout, stdoutOpen, pending, cur>>
metricVars == <<counter, replayed, waitObs, redoObs>>
stderrVars == <<stderrTask, stderrPipe, stderrOpen, stderrFault, stderrLines,
                errorLog, debugLog, driving>>
requestVars == <<callerVars, managerVars, exchangeVars, engineVars, metricVars>>
vars == <<requestVars, stderrVars>>

\* ---------------------------------------------------------------- values
Min(a, b) == IF a < b THEN a ELSE b

RECURSIVE PageLen(_)
PageLen(p) == IF p = <<>> THEN 0 ELSE Head(p).n + PageLen(Tail(p))

\* Append n bytes of source src to a sequence of runs.
AppendRun(p, src, n) ==
    IF n = 0 THEN p
    ELSE IF p # <<>> /\ p[Len(p)].src = src
         THEN [p EXCEPT ![Len(p)].n = @ + n]
         ELSE Append(p, [src |-> src, n |-> n])

\* The first k bytes of a sequence of runs, and what is left after them.
RECURSIVE TakeBytes(_, _)
TakeBytes(p, k) ==
    IF k = 0 \/ p = <<>> THEN <<>>
    ELSE IF Head(p).n <= k
         THEN <<Head(p)>> \o TakeBytes(Tail(p), k - Head(p).n)
         ELSE <<[src |-> Head(p).src, n |-> k]>>

RECURSIVE DropBytes(_, _)
DropBytes(p, k) ==
    IF k = 0 \/ p = <<>> THEN p
    ELSE IF Head(p).n <= k
         THEN DropBytes(Tail(p), k - Head(p).n)
         ELSE <<[src |-> Head(p).src, n |-> Head(p).n - k]>> \o Tail(p)

RECURSIVE ConcatRuns(_, _)
ConcatRuns(p, q) ==
    IF q = <<>> THEN p
    ELSE ConcatRuns(AppendRun(p, Head(q).src, Head(q).n), Tail(q))

\* Result<Bytes, WalRedoError>
Ok(img) == [tag |-> "Ok", img |-> img]
IoError == [tag |-> "IoError", img |-> <<>>]
InvalidState == [tag |-> "InvalidState", img |-> <<>>]
NoResult == [tag |-> "None", img |-> <<>>]

\* The record sequences callers pass: none, or MaxRecords records that are
\* not in the order of their numbers.
RecordSeqs == {<<>>, [i \in 1..MaxRecords |-> MaxRecords + 1 - i]}

RelishKinds == {"Relation", "Other"}

NoCall == [self |-> "none", id |-> 0, rel |-> "Other", records |-> <<>>]

\* WalRedoRequest, with the manager it is sent to and the call's identity.
NewCallReversed(self, id, rel, records) ==
    [self |-> self, id |-> id, rel |-> rel,
     records |-> [i \in 1..Len(records) |-> records[Len(records) + 1 - i]]]
NewCall(self, id, rel, records) ==
    [self |-> self, id |-> id, rel |-> rel, records |-> records]

\* ------------------------------------------------- code outside this file
\* request::serialize_request: the page identity, then the WAL records in
\* order, then the sentinel that ends the request.
SerializeRequest(c) ==
    <<[src |-> c.id, kind |-> "begin", rec |-> 0]>>
    \o [i \in 1..Len(c.records) |->
            [src |-> c.id, kind |-> "record", rec |-> c.records[i]]]
    \o <<[src |-> c.id, kind |-> "end", rec |-> 0]>>

\* nonrel::apply_nonrel: a pure function of the request; its page carries
\* the negated call identity, so no engine output can equal it.
ApplyNonrel(c) == <<[src |-> 0 - c.id, n |-> BLCKSZ]>>

\* What one request adds to WAL_REDO_RECORD_COUNTER: one per WAL record.
RecordsReplayedOnce(records) == 1
RecordsReplayed(records) == Len(records)

\* ------------------------------------------------------------- decisions
\* DummyRedoManager::request_redo
DummyResultOk(c) == Ok(<<>>)
DummyResult(c) == InvalidState

\* self.process.lock(): the guard is handed out only when nobody holds it.
MutexAlwaysAvailable(h) == TRUE
MutexAvailable(h) == h = None

\* if process_guard.is_none()
AlwaysLaunch(p) == TRUE
NeedsLaunch(p) == p = None

\* if let RelishTag::Relation(rel) = request.rel
AlwaysRelation(c) == TRUE
IsRelation(c) == c.rel = "Relation"

\* timeout(TIMEOUT, stdout.read_exact(..)): the timer is armed at the first
\* poll of f_stdout, which try_join! makes together with that of f_stdin.
\* e is the time since the exchange began, fi the state of f_stdin and wd
\* the time at which write_all completed.
\* Each is the time since the exchange began at which the timer fires.
\* (ReadWithoutTimeout: no timer at all, later than any instant of the model.)
ReadWithoutTimeout(fi, wd) == 4 * TIMEOUT
ReadDeadlineAfterWrite(fi, wd) ==
    IF fi = "writing" THEN 3 * TIMEOUT ELSE wd + TIMEOUT
ReadDeadline(fi, wd) == TIMEOUT

\* timeout(TIMEOUT, stdin.write_all(&buf))
WriteDeadline == TIMEOUT

\* timeout(TIMEOUT, stdin.flush()): armed when write_all has completed at wd.
FlushDeadline(wd) == wd + TIMEOUT

\* stdout.read_exact(&mut buf) with buf = vec![0u8; 8192]: complete only
\* when the whole buffer is filled.
ReadAnyComplete(b) == PageLen(b) > 0
ReadExactComplete(b) == PageLen(b) = BLCKSZ

\* tokio::try_join!(f_stdout, f_stdin): an error of either future ends the
\* exchange at once; success needs both.
TryJoinReadOnly(fo, fi, b) ==
    IF fo = "err" THEN IoError
    ELSE IF fo = "done" THEN Ok(b)
    ELSE NoResult
TryJoin(fo, fi, b) ==
    IF fo = "err" \/ fi = "err" THEN IoError
    ELSE IF fo = "done" /\ fi = "done" THEN Ok(b)
    ELSE NoResult

\* ------------------------------------------------------------------ Init
\* The stderr-forwarding task before launch has spawned it.  The task shares
\* no state with request handling: Spec leaves it at rest, StderrSpec is
\* the specification of its loop.
StderrAtRest ==
    /\ stderrTask = "none"
    /\ stderrPipe = <<>>
    /\ stderrOpen = FALSE
    /\ stderrFault = FALSE
    /\ stderrLines = 0
    /\ errorLog = 0
    /\ debugLog = 0
    /\ driving = FALSE

\* PostgresRedoManager::new: no process yet, the mutex free; no call made.
Init ==
    /\ pc = [t \in Threads |-> "idle"]
    /\ call = [t \in Threads |-> NoCall]
    /\ ret = [t \in Threads |-> NoResult]
    /\ cause = [t \in Threads |-> "none"]
    /\ ncalls = 0
    /\ holder = None
    /\ poisoned = FALSE
    /\ process = None
    /\ spawned = 0
    /\ fin = [t \in Threads |-> "idle"]
    /\ fout = [t \in Threads |-> "idle"]
    /\ wpos = [t \in Threads |-> 0]
    /\ buf = [t \in Threads |-> <<>>]
    /\ elapsed = [t \in Threads |-> 0]
    /\ wdone = [t \in Threads |-> 0]
    /\ stdin = <<>>
    /\ stdinOpen = FALSE
    /\ stdout = <<>>
    /\ stdoutOpen = FALSE
    /\ pending = <<>>
    /\ cur = {}
    /\ counter = 0
    /\ replayed = [t \in Threads |-> 0]
    /\ waitObs = 0
    /\ redoObs = 0
    /\ StderrAtRest

\* ------------------------------------------------------- DummyRedoManager
\* DummyRedoManager::request_redo: the whole call is one step.
DummyRequestRedo(t, rel, records) ==
    /\ pc[t] \in {"idle", "done"}
    /\ ncalls < MaxCalls
    /\ ncalls' = ncalls + 1
    /\ call' = [call EXCEPT ![t] = NewCall("Dummy", ncalls + 1, rel, records)]
    /\ ret' = [ret EXCEPT ![t] = DummyResult(call'[t])]
    /\ pc' = [pc EXCEPT ![t] = "done"]
    /\ cause' = [cause EXCEPT ![t] = "none"]
    /\ replayed' = [replayed EXCEPT ![t] = 0]
    /\ UNCHANGED <<managerVars, exchangeVars, engineVars, counter, waitObs, redoObs>>
    /\ UNCHANGED stderrVars

\* ---------------------------------------------------- PostgresRedoManager
\* request_redo, entry: build the WalRedoRequest, take start_time.
RequestRedo(t, rel, records) ==
    /\ pc[t] \in {"idle", "done"}
    /\ ncalls < MaxCalls
    /\ ncalls' = ncalls + 1
    /\ call' = [call EXCEPT ![t] = NewCall("Postgres", ncalls + 1, rel, records)]
    /\ pc' = [pc EXCEPT ![t] = "lock"]
    /\ ret' = [ret EXCEPT ![t] = NoResult]
    /\ cause' = [cause EXCEPT ![t] = "none"]
    /\ replayed' = [replayed EXCEPT ![t] = 0]
    /\ UNCHANGED <<managerVars, exchangeVars, engineVars, counter, waitObs, redoObs>>
    /\ UNCHANGED stderrVars

\* A panic while the guard is held unwinds through it: the mutex is
\* released and poisoned, and the calling thread never returns.
PanicWithoutPoison(t, why) ==
    /\ pc' = [pc EXCEPT ![t] = "panicked"]
    /\ cause' = [cause EXCEPT ![t] = why]
    /\ holder' = IF holder = t THEN None ELSE holder
    /\ poisoned' = poisoned
Panic(t, why) ==
    /\ pc' = [pc EXCEPT ![t] = "panicked"]
    /\ cause' = [cause EXCEPT ![t] = why]
    /\ holder' = IF holder = t THEN None ELSE holder
    /\ poisoned' = TRUE

\* self.process.lock().unwrap(), then the launch-on-first-use test.
LockLaunchingForRelation(t) ==
    /\ pc[t] = "lock"
    /\ MutexAvailable(holder)
    /\ IF poisoned
       THEN /\ Panic(t, "poison")
            /\ UNCHANGED <<call, ret, ncalls, process, spawned>>
       ELSE /\ holder' = t
            /\ pc' = [pc EXCEPT ![t] =
                        IF NeedsLaunch(process) /\ IsRelation(call[t])
                        THEN "launch" ELSE "apply"]
            /\ UNCHANGED <<call, ret, cause, ncalls, poisoned, process, spawned>>
    /\ UNCHANGED <<exchangeVars, engineVars, metricVars>>
    /\ UNCHANGED stderrVars
Lock(t) ==
    /\ pc[t] = "lock"
    /\ MutexAvailable(holder)
    /\ IF poisoned
       THEN /\ Panic(t, "poison")
            /\ UNCHANGED <<call, ret, ncalls, process, spawned>>
       ELSE /\ holder' = t
            /\ pc' = [pc EXCEPT ![t] =
                        IF NeedsLaunch(process) THEN "launch" ELSE "apply"]
            /\ UNCHANGED <<call, ret, cause, ncalls, poisoned, process, spawned>>
    /\ UNCHANGED <<exchangeVars, engineVars, metricVars>>
    /\ UNCHANGED stderrVars

\* runtime.block_on(PostgresRedoProcess::launch(..))?
\*   initdb_fail: initdb cannot be executed or exits unsuccessfully (panic)
\*   conf_err:    postgresql.conf cannot be opened or appended to (Err, `?`)
\*   spawn_fail:  postgres --wal-redo cannot be spawned (expect: panic)
\*   ok:          the child runs with fresh pipes; the handle is stored
LaunchOutcomes == {"initdb_fail", "conf_err", "spawn_fail", "ok"}

LaunchConfigAfterSpawn(t, outcome) ==
    /\ pc[t] = "launch"
    /\ CASE outcome \in {"initdb_fail", "spawn_fail"} ->
              /\ Panic(t, outcome)
              /\ UNCHANGED <<call, ret, ncalls, process, spawned, engineVars>>
         [] outcome = "conf_err" ->
              /\ ret' = [ret EXCEPT ![t] = IoError]
              /\ cause' = [cause EXCEPT ![t] = outcome]
              /\ holder' = None
              /\ pc' = [pc EXCEPT ![t] = "done"]
              /\ spawned' = spawned + 1
              /\ UNCHANGED <<call, ncalls, poisoned, process, engineVars>>
         [] outcome = "ok" ->
              /\ spawned' = spawned + 1
              /\ process' = spawned + 1
              /\ stdin' = <<>>
              /\ stdinOpen' = TRUE
              /\ stdout' = <<>>
              /\ stdoutOpen' = TRUE
              /\ pending' = <<>>
              /\ cur' = {}
              /\ pc' = [pc EXCEPT ![t] = "apply"]
              /\ UNCHANGED <<call, ret, cause, ncalls, holder, poisoned>>
    /\ UNCHANGED <<exchangeVars, metricVars>>
    /\ UNCHANGED stderrVars

Launch(t, outcome) ==
    /\ pc[t] = "launch"
    /\ CASE outcome \in {"initdb_fail", "spawn_fail"} ->
              /\ Panic(t, outcome)
              /\ UNCHANGED <<call, ret, ncalls, process, spawned, engineVars>>
         [] outcome = "conf_err" ->
              /\ ret' = [ret EXCEPT ![t] = IoError]
              /\ cause' = [cause EXCEPT ![t] = outcome]
              /\ holder' = None
              /\ pc' = [pc EXCEPT ![t] = "done"]
              /\ UNCHANGED <<call, ncalls, poisoned, process, spawned, engineVars>>
         [] outcome = "ok" ->
              /\ spawned' = spawned + 1
              /\ process' = spawned + 1
              /\ stdin' = <<>>
              /\ stdinOpen' = TRUE
              /\ stdout' = <<>>
              /\ stdoutOpen' = TRUE
              /\ pending' = <<>>
              /\ cur' = {}
              /\ pc' = [pc EXCEPT ![t] = "apply"]
              /\ UNCHANGED <<call, ret, cause, ncalls, holder, poisoned>>
    /\ UNCHANGED <<exchangeVars, metricVars>>
    /\ UNCHANGED stderrVars

\* handle_apply_request: a relation page goes through apply_wal_records
\* (the request is serialized and both futures get their first poll);
\* anything else is computed by nonrel::apply_nonrel.
HandleApplyRequest(t) ==
    /\ pc[t] = "apply"
    /\ counter' = counter + RecordsReplayed(call[t].records)
    /\ replayed' = [replayed EXCEPT ![t] = @ + RecordsReplayed(call[t].records)]
    /\ IF IsRelation(call[t])
       THEN /\ pc' = [pc EXCEPT ![t] = "exchange"]
            /\ fin' = [fin EXCEPT ![t] = "writing"]
            /\ fout' = [fout EXCEPT ![t] = "reading"]
            /\ wpos' = [wpos EXCEPT ![t] = 0]
            /\ buf' = [buf EXCEPT ![t] = <<>>]
            /\ elapsed' = [elapsed EXCEPT ![t] = 0]
            /\ wdone' = [wdone EXCEPT ![t] = 0]
            /\ UNCHANGED ret
       ELSE /\ pc' = [pc EXCEPT ![t] = "release"]
            /\ ret' = [ret EXCEPT ![t] = Ok(ApplyNonrel(call[t]))]
            /\ UNCHANGED exchangeVars
    /\ UNCHANGED <<call, cause, ncalls, managerVars, engineVars, waitObs, redoObs>>
    /\ UNCHANGED stderrVars

\* The state both futures are left in by one poll: try_join! decides whether
\* apply_wal_records returns, and handle_apply_request wraps the result.
\* The futures (and buf, moved into the result or dropped with f_stdout) are
\* gone when the block in request_redo ends.
Settle(t, fo, fi, b, wp, wd) ==
    LET r == TryJoin(fo, fi, b) IN
    IF r = NoResult
    THEN /\ fout' = [fout EXCEPT ![t] = fo]
         /\ fin' = [fin EXCEPT ![t] = fi]
         /\ buf' = [buf EXCEPT ![t] = b]
         /\ wpos' = [wpos EXCEPT ![t] = wp]
         /\ wdone' = [wdone EXCEPT ![t] = wd]
         /\ UNCHANGED <<pc, ret, elapsed>>
    ELSE /\ pc' = [pc EXCEPT ![t] = "release"]
         /\ ret' = [ret EXCEPT ![t] = r]
         /\ fout' = [fout EXCEPT ![t] = fo]
         /\ fin' = [fin EXCEPT ![t] = fi]
         /\ buf' = [buf EXCEPT ![t] = <<>>]
         /\ wpos' = [wpos EXCEPT ![t] = wp]
         /\ wdone' = [wdone EXCEPT ![t] = 0]
         /\ elapsed' = [elapsed EXCEPT ![t] = 0]

\* f_stdin, stdin.write_all(&buf): a write puts as many units of the encoded
\* request into the pipe as it has room for; it fails when the child has
\* closed its end.  When the last unit is written, flush is polled next.
WriteStep(t) ==
    /\ pc[t] = "exchange"
    /\ fin[t] = "writing"
    /\ LET enc == SerializeRequest(call[t])
           k == Min(StdinCap - Len(stdin), Len(enc) - wpos[t])
       IN IF ~stdinOpen
          THEN /\ Settle(t, fout[t], "err", buf[t], wpos[t], wdone[t])
               /\ UNCHANGED stdin
          ELSE /\ k > 0
               /\ stdin' = stdin \o SubSeq(enc, wpos[t] + 1, wpos[t] + k)
               /\ IF wpos[t] + k = Len(enc)
                  THEN Settle(t, fout[t], "flushing", buf[t], wpos[t] + k, elapsed[t])
                  ELSE Settle(t, fout[t], "writing", buf[t], wpos[t] + k, wdone[t])
    /\ UNCHANGED <<call, cause, ncalls, managerVars, metricVars,
                   stdinOpen, stdout, stdoutOpen, pending, cur>>
    /\ UNCHANGED stderrVars

\* f_stdin, timeout(TIMEOUT, stdin.write_all(&buf)) elapses.
WriteTimeout(t) ==
    /\ pc[t] = "exchange"
    /\ fin[t] = "writing"
    /\ elapsed[t] >= WriteDeadline
    /\ Settle(t, fout[t], "err", buf[t], wpos[t], wdone[t])
    /\ UNCHANGED <<call, cause, ncalls, managerVars, metricVars, engineVars>>
    /\ UNCHANGED stderrVars

\* f_stdin, stdin.flush(): completes, or fails when the pipe is broken.
FlushStep(t) ==
    /\ pc[t] = "exchange"
    /\ fin[t] = "flushing"
    /\ Settle(t, fout[t], IF stdinOpen THEN "done" ELSE "err",
              buf[t], wpos[t], wdone[t])
    /\ UNCHANGED <<call, cause, ncalls, managerVars, metricVars, engineVars>>
    /\ UNCHANGED stderrVars

\* f_stdin, timeout(TIMEOUT, stdin.flush()) elapses.
FlushTimeout(t) ==
    /\ pc[t] = "exchange"
    /\ fin[t] = "flushing"
    /\ elapsed[t] >= FlushDeadline(wdone[t])
    /\ Settle(t, fout[t], "err", buf[t], wpos[t], wdone[t])
    /\ UNCHANGED <<call, cause, ncalls, managerVars, metricVars, engineVars>>
    /\ UNCHANGED stderrVars

\* f_stdout, stdout.read_exact(&mut buf): a read moves what the pipe holds,
\* up to the room left in buf, into buf; end of file before buf is full is
\* an error (UnexpectedEof).
ReadStepAfterWrite(t) ==
    /\ pc[t] = "exchange"
    /\ fout[t] = "reading"
    /\ fin[t] = "done"
    /\ IF stdout # <<>>
       THEN LET k == Min(PageLen(stdout), BLCKSZ - PageLen(buf[t]))
                b == ConcatRuns(buf[t], TakeBytes(stdout, k))
            IN /\ stdout' = DropBytes(stdout, k)
               /\ Settle(t, IF ReadExactComplete(b) THEN "done" ELSE "reading",
                         fin[t], b, wpos[t], wdone[t])
       ELSE /\ ~stdoutOpen
            /\ Settle(t, "err", fin[t], buf[t], wpos[t], wdone[t])
            /\ UNCHANGED stdout
    /\ UNCHANGED <<call, cause, ncalls, managerVars, metricVars,
                   stdin, stdinOpen, stdoutOpen, pending, cur>>
    /\ UNCHANGED stderrVars
ReadStep(t) ==
    /\ pc[t] = "exchange"
    /\ fout[t] = "reading"
    /\ IF stdout # <<>>
       THEN LET k == Min(PageLen(stdout), BLCKSZ - PageLen(buf[t]))
                b == ConcatRuns(buf[t], TakeBytes(stdout, k))
            IN /\ stdout' = DropBytes(stdout, k)
               /\ Settle(t, IF ReadExactComplete(b) THEN "done" ELSE "reading",
                         fin[t], b, wpos[t], wdone[t])
       ELSE /\ ~stdoutOpen
            /\ Settle(t, "err", fin[t], buf[t], wpos[t], wdone[t])
            /\ UNCHANGED stdout
    /\ UNCHANGED <<call, cause, ncalls, managerVars, metricVars,
                   stdin, stdinOpen, stdoutOpen, pending, cur>>
    /\ UNCHANGED stderrVars

\* f_stdout, timeout(TIMEOUT, stdout.read_exact(&mut buf)) elapses.
ReadTimeout(t) ==
    /\ pc[t] = "exchange"
    /\ fout[t] = "reading"
    /\ elapsed[t] >= ReadDeadline(fin[t], wdone[t])
    /\ Settle(t, "err", fin[t], buf[t], wpos[t], wdone[t])
    /\ UNCHANGED <<call, cause, ncalls, managerVars, metricVars, engineVars>>
    /\ UNCHANGED stderrVars

\* End of the block in request_redo: the guard is dropped, end_time taken.
ReleaseDiscardingFailed(t) ==
    /\ pc[t] = "release"
    /\ holder' = IF holder = t THEN None ELSE holder
    /\ process' = IF ret[t].tag = "IoError" THEN None ELSE process
    /\ pc' = [pc EXCEPT ![t] = "observe"]
    /\ fin' = [fin EXCEPT ![t] = "idle"]
    /\ fout' = [fout EXCEPT ![t] = "idle"]
    /\ wpos' = [wpos EXCEPT ![t] = 0]
    /\ UNCHANGED <<call, ret, cause, ncalls, poisoned, spawned,
                   buf, elapsed, wdone, engineVars, metricVars>>
    /\ UNCHANGED stderrVars
Release(t) ==
    /\ pc[t] = "release"
    /\ holder' = IF holder = t THEN None ELSE holder
    /\ pc' = [pc EXCEPT ![t] = "observe"]
    /\ fin' = [fin EXCEPT ![t] = "idle"]
    /\ fout' = [fout EXCEPT ![t] = "idle"]
    /\ wpos' = [wpos EXCEPT ![t] = 0]
    /\ UNCHANGED <<call, ret, cause, ncalls, poisoned, process, spawned,
                   buf, elapsed, wdone, engineVars, metricVars>>
    /\ UNCHANGED stderrVars

\* WAL_REDO_WAIT_TIME.observe(..); WAL_REDO_TIME.observe(..); result:
\* the result moves to the caller, the request is dropped, and the caller
\* is free to call again.
Observe(t) ==
    /\ pc[t] = "observe"
    /\ waitObs' = waitObs + 1
    /\ redoObs' = redoObs + 1
    /\ pc' = [pc EXCEPT ![t] = "idle"]
    /\ call' = [call EXCEPT ![t] = NoCall]
    /\ ret' = [ret EXCEPT ![t] = NoResult]
    /\ replayed' = [replayed EXCEPT ![t] = 0]
    /\ UNCHANGED <<cause, ncalls, managerVars, exchangeVars, engineVars, counter>>
    /\ UNCHANGED stderrVars

\* ------------------------------------------- the postgres --wal-redo child
\* The engine reads one unit of its stdin; the sentinel completes a request
\* and the engine owes one page for it.
EngineConsume ==
    /\ stdinOpen
    /\ stdin # <<>>
    /\ LET u == Head(stdin)
           seen == cur \cup {u.src}
       IN /\ stdin' = Tail(stdin)
          /\ IF u.kind = "end"
             THEN /\ pending' = Append(pending,
                        [src |-> IF seen = {u.src} THEN u.src ELSE 0,
                         rem |-> BLCKSZ])
                  /\ cur' = {}
             ELSE /\ cur' = seen
                  /\ UNCHANGED pending
    /\ UNCHANGED <<callerVars, managerVars, exchangeVars, metricVars,
                   stdinOpen, stdout, stdoutOpen>>
    /\ UNCHANGED stderrVars

\* The engine writes part or all of the page it owes to its stdout.
EngineEmit(whole) ==
    /\ stdoutOpen
    /\ pending # <<>>
    /\ LET p == Head(pending)
           n == IF whole THEN p.rem ELSE Min(p.rem, BLCKSZ \div EmitParts)
       IN /\ stdout' = AppendRun(stdout, p.src, n)
          /\ pending' = IF n = p.rem THEN Tail(pending)
                        ELSE [pending EXCEPT ![1].rem = @ - n]
    /\ UNCHANGED <<callerVars, managerVars, exchangeVars, metricVars,
                   stdin, stdinOpen, stdoutOpen, cur>>
    /\ UNCHANGED stderrVars

\* The engine exits (or closes its streams): what it owed is never written;
\* what is already in the stdout pipe can still be read.
EngineExit ==
    /\ stdinOpen \/ stdoutOpen
    /\ stdinOpen' = FALSE
    /\ stdoutOpen' = FALSE
    /\ stdin' = <<>>
    /\ pending' = <<>>
    /\ cur' = {}
    /\ UNCHANGED <<callerVars, managerVars, exchangeVars, metricVars, stdout>>
    /\ UNCHANGED stderrVars

\* ------------------------------------------------------------------ time
\* Time is sampled: it moves on by one granule, or to the next instant at
\* which a timer fires when that comes first.  A timer that is due fires
\* before time moves on.
Granule == (TIMEOUT + TimeSteps - 1) \div TimeSteps

\* The earliest instant at which one of the armed timers of t fires.
NextDeadline(t) ==
    LET r == IF fout[t] = "reading"
             THEN ReadDeadline(fin[t], wdone[t]) ELSE 3 * TIMEOUT
        w == IF fin[t] = "writing" THEN WriteDeadline
             ELSE IF fin[t] = "flushing" THEN FlushDeadline(wdone[t])
             ELSE 3 * TIMEOUT
    IN Min(r, w)

Tick ==
    /\ \E t \in Threads : pc[t] = "exchange"
    /\ \A t \in Threads : pc[t] = "exchange" => elapsed[t] < NextDeadline(t)
    /\ elapsed' = [t \in Threads |->
                     IF pc[t] = "exchange"
                     THEN Min(elapsed[t] + Granule, NextDeadline(t))
                     ELSE elapsed[t]]
    /\ UNCHANGED <<callerVars, managerVars, engineVars, metricVars,
                   fin, fout, wpos, buf, wdone>>
    /\ UNCHANGED stderrVars

\* ------------------------------------------------------------------ Next
Next ==
    \/ \E t \in Threads, rel \in RelishKinds, records \in RecordSeqs :
          DummyRequestRedo(t, rel, records)
    \/ \E t \in Threads, rel \in RelishKinds, records \in RecordSeqs :
          RequestRedo(t, rel, records)
    \/ \E t \in Threads : Lock(t)
    \/ \E t \in Threads, outcome \in LaunchOutcomes : Launch(t, outcome)
    \/ \E t \in Threads : HandleApplyRequest(t)
    \/ \E t \in Threads : WriteStep(t)
    \/ \E t \in Threads : WriteTimeout(t)
    \/ \E t \in Threads : FlushStep(t)
    \/ \E t \in Threads : FlushTimeout(t)
    \/ \E t \in Threads : ReadStep(t)
    \/ \E t \in Threads : ReadTimeout(t)
    \/ \E t \in Threads : Release(t)
    \/ \E t \in Threads : Observe(t)
    \/ EngineConsume
    \/ \E whole \in BOOLEAN : EngineEmit(whole)
    \/ EngineExit
    \/ Tick

Spec == Init /\ [][Next]_vars

\* ------------------------------------------------------------- fairness
\* FairSpec: the behaviours of Spec in which callers, timers and time make
\* progress.  The lock is fair (a caller that waits for it gets it), launch
\* terminates, a thread that can take its next step inside request_redo
\* takes it, a timer that is due fires, and time goes on while an exchange
\* waits.  Nothing is assumed of the engine: it may stay silent for ever.
CallerFairness(t) ==
    /\ SF_vars(Lock(t))
    /\ WF_vars(\E outcome \in LaunchOutcomes : Launch(t, outcome))
    /\ WF_vars(HandleApplyRequest(t))
    /\ WF_vars(WriteTimeout(t))
    /\ WF_vars(FlushTimeout(t))
    /\ WF_vars(ReadTimeout(t))
    /\ WF_vars(Release(t))
    /\ WF_vars(Observe(t))

FairSpec ==
    /\ Spec
    /\ \A t \in Threads : CallerFairness(t)
    /\ WF_vars(Tick)

\* ------------------------------------------------- the duplex exchange
\* DuplexSpec: relation-page requests against an engine that never exits,
\* does one thing at a time and writes to a stdout pipe of StdoutCap bytes.
\* While it owes output it is blocked in its write and reads no input; it
\* answers a request either as soon as it has read the request's first unit
\* (early) or when it has read the sentinel.
StdoutCap == 4096

DuplexConsume(early) ==
    /\ stdinOpen
    /\ stdin # <<>>
    /\ pending = <<>>
    /\ LET u == Head(stdin)
           seen == cur \cup {u.src}
           page == [src |-> IF seen = {u.src} THEN u.src ELSE 0, rem |-> BLCKSZ]
       IN /\ stdin' = Tail(stdin)
          /\ CASE u.kind = "begin" /\ early ->
                    pending' = <<page>> /\ cur' = {}
               [] u.kind = "begin" /\ ~early ->
                    cur' = seen /\ UNCHANGED pending
               [] u.kind = "record" ->
                    UNCHANGED <<pending, cur>>
               [] u.kind = "end" ->
                    /\ pending' = IF cur = {} THEN pending ELSE <<page>>
                    /\ cur' = {}
    /\ UNCHANGED <<callerVars, managerVars, exchangeVars, metricVars,
                   stdinOpen, stdout, stdoutOpen>>
    /\ UNCHANGED stderrVars

DuplexEmit ==
    /\ stdoutOpen
    /\ pending # <<>>
    /\ PageLen(stdout) < StdoutCap
    /\ LET p == Head(pending)
           n == Min(Min(p.rem, BLCKSZ \div EmitParts),
                    StdoutCap - PageLen(stdout))
       IN /\ stdout' = AppendRun(stdout, p.src, n)
          /\ pending' = IF n = p.rem THEN Tail(pending)
                        ELSE [pending EXCEPT ![1].rem = @ - n]
    /\ UNCHANGED <<callerVars, managerVars, exchangeVars, metricVars,
                   stdin, stdinOpen, stdoutOpen, cur>>
    /\ UNCHANGED stderrVars

DuplexNext ==
    \/ \E t \in Threads, records \in RecordSeqs :
          RequestRedo(t, "Relation", records)
    \/ \E t \in Threads : Lock(t)
    \/ \E t \in Threads : Launch(t, "ok")
    \/ \E t \in Threads : HandleApplyRequest(t)
    \/ \E t \in Threads : WriteStep(t)
    \/ \E t \in Threads : WriteTimeout(t)
    \/ \E t \in Threads : FlushStep(t)
    \/ \E t \in Threads : FlushTimeout(t)
    \/ \E t \in Threads : ReadStep(t)
    \/ \E t \in Threads : ReadTimeout(t)
    \/ \E t \in Threads : Release(t)
    \/ \E t \in Threads : Observe(t)
    \/ \E early \in BOOLEAN : DuplexConsume(early)
    \/ DuplexEmit
    \/ Tick

\* The runtime polls f_stdin and f_stdout whenever their pipe is ready, and
\* the engine goes on whenever it is not blocked.  Nothing is assumed of the
\* speed of either: time may or may not go on meanwhile.
DuplexSpec ==
    /\ Init
    /\ [][DuplexNext]_vars
    /\ \A t \in Threads :
          WF_vars(WriteStep(t)) /\ WF_vars(FlushStep(t)) /\ WF_vars(ReadStep(t))
    /\ WF_vars(\E early \in BOOLEAN : DuplexConsume(early))
    /\ WF_vars(DuplexEmit)

\* ------------------------------------------------ the stderr-forwarding task
\* StderrSpec is the specification of the f_stderr task that launch spawns on
\* the manager's current-thread runtime.  Such a task is polled only while a
\* block_on of that runtime waits on its own future: here, while an exchange
\* waits for the child.  The child writes whole lines to its stderr, valid
\* ("line") or not valid UTF-8 ("bad").
MaxLines == 2
MaxDebug == 2

LineKinds == {"line", "bad"}

\* stderr_buffered.read_line(&mut line).await: what it resolves to, or
\* "pending" while the pipe is open and holds no line.
ReadLine(pipe, open, fault) ==
    IF fault THEN "io_error"
    ELSE IF pipe # <<>>
         THEN IF Head(pipe) = "bad" THEN "invalid_utf8" ELSE "line"
         ELSE IF open THEN "pending" ELSE "eof"

\* The body of the loop after read_line: is_err() continues, Ok(0) breaks,
\* anything else is forwarded to the log.
StderrLoopNext(res) ==
    IF res \in {"io_error", "invalid_utf8"} THEN "continue"
    ELSE IF res = "eof" THEN "break"
    ELSE "log"

\* launch, once the child runs: its stderr is taken and f_stderr is spawned;
\* launch returns without the task having been polled.
StderrLaunch ==
    /\ stderrTask = "none"
    /\ stderrTask' = "reading"
    /\ stderrOpen' = TRUE
    /\ UNCHANGED <<stderrPipe, stderrFault, stderrLines, errorLog, debugLog,
                   driving>>
    /\ UNCHANGED requestVars

\* request_redo: block_on(handle_apply_request) starts to wait on the
\* exchange of a relation-page request.
ExchangeBegins ==
    /\ stderrTask # "none"
    /\ ~driving
    /\ driving' = TRUE
    /\ UNCHANGED <<stderrTask, stderrPipe, stderrOpen, stderrFault, stderrLines,
                   errorLog, debugLog>>
    /\ UNCHANGED requestVars

\* try_join! is done and block_on returns.
ExchangeEnds ==
    /\ driving
    /\ driving' = FALSE
    /\ UNCHANGED <<stderrTask, stderrPipe, stderrOpen, stderrFault, stderrLines,
                   errorLog, debugLog>>
    /\ UNCHANGED requestVars

\* One iteration of the loop, run by the runtime while it is driven.
StderrIteration ==
    /\ stderrTask = "reading"
    /\ driving
    /\ LET res == ReadLine(stderrPipe, stderrOpen, stderrFault) IN
       /\ res # "pending"
       /\ CASE StderrLoopNext(res) = "continue" ->
                 /\ debugLog' = Min(debugLog + 1, MaxDebug)
                 /\ stderrPipe' = IF res = "invalid_utf8"
                                  THEN Tail(stderrPipe) ELSE stderrPipe
                 /\ UNCHANGED <<stderrTask, errorLog>>
            [] StderrLoopNext(res) = "break" ->
                 /\ stderrTask' = "ended"
                 /\ UNCHANGED <<stderrPipe, errorLog, debugLog>>
            [] StderrLoopNext(res) = "log" ->
                 /\ errorLog' = errorLog + 1
                 /\ stderrPipe' = Tail(stderrPipe)
                 /\ UNCHANGED <<stderrTask, debugLog>>
    /\ UNCHANGED <<stderrOpen, stderrFault, stderrLines, driving>>
    /\ UNCHANGED requestVars

\* The child writes one line to its stderr.
EngineWritesStderr(kind) ==
    /\ stderrOpen
    /\ stderrLines < MaxLines
    /\ stderrPipe' = Append(stderrPipe, kind)
    /\ stderrLines' = stderrLines + 1
    /\ UNCHANGED <<stderrTask, stderrOpen, stderrFault, errorLog, debugLog,
                   driving>>
    /\ UNCHANGED requestVars

\* The child exits or closes its stderr.
EngineClosesStderr ==
    /\ stderrOpen
    /\ stderrOpen' = FALSE
    /\ UNCHANGED <<stderrTask, stderrPipe, stderrFault, stderrLines, errorLog,
                   debugLog, driving>>
    /\ UNCHANGED requestVars

\* From now on every read of the child's stderr fails with an I/O error.
StderrReadFails ==
    /\ stderrTask = "reading"
    /\ ~stderrFault
    /\ stderrFault' = TRUE
    /\ UNCHANGED <<stderrTask, stderrPipe, stderrOpen, stderrLines, errorLog,
                   debugLog, driving>>
    /\ UNCHANGED requestVars

StderrNext ==
    \/ StderrLaunch
    \/ ExchangeBegins
    \/ ExchangeEnds
    \/ StderrIteration
    \/ \E kind \in LineKinds : EngineWritesStderr(kind)
    \/ EngineClosesStderr
    \/ StderrReadFails

\* The runtime polls a task that can run whenever it is driven.
StderrSpec == Init /\ [][StderrNext]_vars /\ WF_vars(StderrIteration)

\* ---------------------------------------------------------------- claims
Returning == {"release", "observe", "done"}

\* The calls of thread t that went to the process-backed manager.
OnPostgres(t) == call[t].self = "Postgres"

\* C1: at most one exchange (apply_wal_records) is in progress at any time,
\* and the thread running it holds the process mutex.
C1_OneExchangeAtATime ==
    /\ Cardinality({t \in Threads : pc[t] = "exchange"}) <= 1
    /\ \A t \in Threads : pc[t] = "exchange" => holder = t

\* An exchange is in progress while another caller waits for the mutex.
C1_Witness ==
    \E t, u \in Threads : pc[t] = "exchange" /\ wpos[t] > 0 /\ pc[u] = "lock"

\* C2: every page image returned successfully for a relation page consists
\* only of bytes the engine produced in response to that same call's request.
C2_OnlyOwnResponseBytes ==
    \A t \in Threads :
        (pc[t] \in Returning /\ OnPostgres(t) /\ call[t].rel = "Relation"
            /\ ret[t].tag = "Ok")
        => \A i \in 1..Len(ret[t].img) : ret[t].img[i].src = call[t].id

\* C3: DummyRedoManager::request_redo returns Err(InvalidState) for every
\* input, launches nothing and changes no state of any manager, process or
\* metric.
C3_DummyRefuses ==
    /\ [](\A t \in Threads :
            (pc[t] = "done" /\ call[t].self = "Dummy") => ret[t] = InvalidState)
    /\ [][\A t \in Threads :
            (call'[t] # call[t] /\ call'[t].self = "Dummy")
            => UNCHANGED <<managerVars, exchangeVars, engineVars,
                           counter, waitObs, redoObs>>]_vars

\* A call to the refusing manager has returned after the process-backed
\* manager has launched its process.
C3_Witness ==
    \E t \in Threads :
        pc[t] = "done" /\ call[t].self = "Dummy" /\ process # None

C5_LaunchAtMostOnce ==
    /\ spawned <= 1
    /\ process \in {None, 1}
    /\ \A t \in Threads : pc[t] \in {"apply", "exchange"} => process = 1

\* A second call runs its exchange on the handle the first call launched.
C5_Witness ==
    \E t \in Threads :
        pc[t] = "exchange" /\ call[t].id = 2 /\ wpos[t] > 0 /\ process = 1

\* The engine has written nothing that the exchange of t could read.
NoResponse(t) == buf[t] = <<>> /\ stdout = <<>>

\* The step ends the exchange of t with an IO failure.
ExchangeFails(t) ==
    pc[t] = "exchange" /\ pc'[t] = "release" /\ ret'[t] = IoError

\* C6 as stated: an exchange with an engine that never writes a response
\* fails exactly when TIMEOUT has elapsed since it began.
C6_FailsExactlyAtTimeout ==
    [][\A t \in Threads :
        (ExchangeFails(t) /\ NoResponse(t)) => elapsed[t] = TIMEOUT]_vars

\* C6 amended: an exchange with an engine that never writes a response and
\* keeps its streams open fails exactly when TIMEOUT has elapsed since it
\* began, and is never in progress later than that, whatever the progress
\* of write_all and flush.
C6_OpenStreamsFailExactlyAtTimeout ==
    /\ [][\A t \in Threads :
            (ExchangeFails(t) /\ NoResponse(t) /\ stdinOpen /\ stdoutOpen)
            => elapsed[t] = TIMEOUT]_vars
    /\ [](\A t \in Threads :
            (pc[t] = "exchange" /\ fout[t] = "reading") => elapsed[t] <= TIMEOUT)

\* An exchange has failed on the read timer: the engine is alive with its
\* streams open, wrote nothing, and the request was written in full.
C6_Witness ==
    \E t \in Threads :
        /\ pc[t] = "release" /\ ret[t] = IoError
        /\ fout[t] = "err" /\ fin[t] \in {"flushing", "done"}
        /\ stdinOpen /\ stdoutOpen /\ stdout = <<>>

\* C7: a successful request_redo with n WAL records has added exactly n to
\* WAL_REDO_RECORD_COUNTER, and the counter never decreases.
C7_CounterAddsRecordCount ==
    /\ [](\A t \in Threads :
            (pc[t] \in Returning /\ OnPostgres(t) /\ ret[t].tag = "Ok")
            => replayed[t] = Len(call[t].records))
    /\ [][/\ counter' >= counter
          /\ \A t \in Threads :
                replayed'[t] > replayed[t]
                => counter' - counter = replayed'[t] - replayed[t]]_vars

\* A successful relation-page call with two records has added two.
C7_Witness ==
    \E t \in Threads :
        /\ pc[t] = "release" /\ OnPostgres(t) /\ ret[t].tag = "Ok"
        /\ call[t].rel = "Relation" /\ Len(call[t].records) = MaxRecords
        /\ counter >= MaxRecords

\* C8: a page image returned by apply_wal_records is exactly BLCKSZ bytes
\* long, and read_exact hands over the bytes of the pipe unchanged and in
\* order: what buf (or the returned image) and the pipe hold together is
\* what they held before the read.
C8_ExactlyOnePageVerbatim ==
    /\ [](\A t \in Threads :
            (pc[t] \in Returning /\ OnPostgres(t) /\ call[t].rel = "Relation"
                /\ ret[t].tag = "Ok")
            => PageLen(ret[t].img) = BLCKSZ)
    /\ [][\A t \in Threads :
            (/\ pc[t] = "exchange"
             /\ buf'[t] # buf[t] \/ ret'[t] # ret[t]
             /\ pc'[t] = "exchange" \/ ret'[t].tag = "Ok")
            => ConcatRuns(IF pc'[t] = "exchange" THEN buf'[t] ELSE ret'[t].img,
                          stdout')
               = ConcatRuns(buf[t], stdout)]_vars

\* The page that the engine produced for a call has been read in full and
\* returned to that call.
C8_Witness ==
    \E t \in Threads :
        /\ pc[t] = "release" /\ ret[t].tag = "Ok" /\ call[t].rel = "Relation"
        /\ fout[t] = "done"
        /\ ret[t].img = <<[src |-> call[t].id, n |-> BLCKSZ]>>

\* C9: apply_wal_records returns Ok only when the whole request was written
\* and flushed and one full page was read; when either future fails or times
\* out the result is an IO failure without a page.
C9_SuccessNeedsBothHalves ==
    \A t \in Threads :
        (pc[t] = "release" /\ OnPostgres(t) /\ call[t].rel = "Relation")
        => /\ ret[t].tag \in {"Ok", "IoError"}
           /\ ret[t].tag = "Ok"
                => /\ fout[t] = "done" /\ fin[t] = "done"
                   /\ wpos[t] = Len(SerializeRequest(call[t]))
                   /\ PageLen(ret[t].img) = BLCKSZ
           /\ (fout[t] = "err" \/ fin[t] = "err") => ret[t] = IoError
           /\ ret[t].tag = "IoError" => (fout[t] = "err" \/ fin[t] = "err")

\* The read half had its page, the flush failed: no page is returned.
C9_Witness ==
    \E t \in Threads :
        /\ pc[t] = "release" /\ call[t].rel = "Relation"
        /\ fout[t] = "done" /\ fin[t] = "err" /\ ret[t] = IoError

\* C10: a failure to spawn postgres --wal-redo is reported to the caller of
\* request_redo as WalRedoError::IoError.
C10_SpawnFailureIsIoError ==
    \A t \in Threads : cause[t] = "spawn_fail" => ret[t] = IoError

\* initdb could not be executed, or exited unsuccessfully, in some call.
InitdbFailed == \E u \in Threads : cause[u] = "initdb_fail"

\* C11: a failure of initdb during launch is fatal: the call that triggered
\* it never returns (neither a page image nor a WalRedoError), and from then
\* on no request_redo call on the PostgresRedoManager gets as far as holding
\* the process mutex or returning a result.
C11_InitdbFailureIsFatal ==
    /\ [](\A t \in Threads :
            cause[t] = "initdb_fail" => pc[t] = "panicked" /\ ret[t] = NoResult)
    /\ [](InitdbFailed =>
            \A t \in Threads :
                pc[t] \notin {"launch", "apply", "exchange", "release"})
    /\ [][InitdbFailed =>
            \A t \in Threads :
                call'[t].self = "Postgres"
                => /\ ret'[t] # ret[t] => ret'[t] = NoResult
                   /\ pc'[t] \in Returning => pc[t] \in Returning]_vars

\* initdb failed in one call, and a call made afterwards on the same
\* manager ended in a panic at lock().unwrap() instead of returning.
C11_Witness ==
    \E t, u \in Threads :
        /\ cause[u] = "initdb_fail" /\ pc[u] = "panicked"
        /\ cause[t] = "poison" /\ pc[t] = "panicked"
        /\ call[t].id > call[u].id

\* The record numbers carried by the record units of q that belong to the
\* request of call id, in the order in which q holds them.
RecordsOf(q, id) ==
    LET own == SelectSeq(q, LAMBDA u : u.src = id /\ u.kind = "record")
    IN [i \in 1..Len(own) |-> own[i].rec]

\* a is a run of consecutive elements of b.
IsInfix(a, b) ==
    \E i \in 0..Len(b) :
        i + Len(a) <= Len(b) /\ a = SubSeq(b, i + 1, i + Len(a))

\* C12: the WAL records reach the wire encoding, and the engine's stdin, in
\* the order the caller of request_redo supplied: the request holds a
\* sequence that a caller passed and keeps it for the whole call, the encoded
\* request carries exactly these records in order, and what the pipe holds
\* of them is a run of consecutive records of the request.
C12_RecordOrderPreserved ==
    /\ [](\A t \in Threads :
            (OnPostgres(t) /\ pc[t] \in {"lock", "launch", "apply", "exchange"})
            => /\ call[t].records \in RecordSeqs
               /\ RecordsOf(SerializeRequest(call[t]), call[t].id)
                    = call[t].records)
    /\ [](\A t \in Threads :
            pc[t] = "exchange"
            => IsInfix(RecordsOf(stdin, call[t].id), call[t].records))
    /\ [][\A t \in Threads :
            (OnPostgres(t)
                /\ pc[t] \in {"lock", "launch", "apply", "exchange", "release"})
            => call'[t].records = call[t].records]_vars

\* All records of a request whose records are not in the order of their
\* numbers are in the engine's stdin.
C12_Witness ==
    \E t \in Threads :
        /\ pc[t] = "exchange" /\ Len(call[t].records) = MaxRecords
        /\ call[t].records[1] > call[t].records[MaxRecords]
        /\ RecordsOf(stdin, call[t].id) = call[t].records

\* C13: a failed exchange is returned as it is: the failing step and the
\* return path after it leave the process slot, the spawn count and the
\* engine's streams unchanged, the call does not run a second exchange or a
\* launch, the stored handle is never replaced or removed, and a later
\* exchange runs on that same handle.
C13_FailedExchangeKeepsHandle ==
    /\ [][process # None => process' = process]_vars
    /\ [][\A t \in Threads :
            ExchangeFails(t) => UNCHANGED <<process, spawned, engineVars>>]_vars
    /\ [][\A t \in Threads :
            pc[t] \in {"release", "observe"}
            => /\ pc'[t] \in {"release", "observe", "idle"}
               /\ pc'[t] # pc[t] => UNCHANGED <<process, spawned, engineVars>>
               /\ pc'[t] # "idle" => ret'[t] = ret[t]]_vars
    /\ [][\A t \in Threads :
            (pc'[t] = "exchange" /\ pc[t] # "exchange")
            => pc[t] = "apply" /\ process' = 1 /\ spawned' = 1]_vars

\* One call is about to return the failure of its exchange while the next
\* call already runs its exchange on the handle launched first.
C13_Witness ==
    \E t, u \in Threads :
        /\ pc[u] = "observe" /\ ret[u] = IoError /\ call[u].rel = "Relation"
        /\ pc[t] = "exchange" /\ wpos[t] > 0 /\ call[t].id > call[u].id
        /\ process = 1 /\ spawned = 1

\* Every call made so far is still visible and none of them asked the
\* process-backed manager for a relation page.
OnlyNonRelationRequests ==
    \A id \in 1..ncalls :
        \E t \in Threads :
            /\ call[t].id = id
            /\ call[t].self = "Dummy" \/ call[t].rel # "Relation"

\* C15 as stated: as long as the manager has only received requests for
\* non-relation objects, no process has been spawned and the process slot
\* is absent.
C15_LaunchOnlyForRelationPage ==
    OnlyNonRelationRequests => spawned = 0 /\ process = None

\* No call has been made to the process-backed manager yet.
NoPostgresRequestYet ==
    \A id \in 1..ncalls :
        \E t \in Threads : call[t].id = id /\ call[t].self = "Dummy"

\* C15 amended: the process handle is created lazily by the first
\* request_redo call that finds the slot absent, whatever object it asks
\* for: before any call to the manager nothing is spawned and the slot is
\* absent, a call that takes the lock launches exactly when the slot is
\* absent, and a process is spawned only by a launch under the lock with the
\* slot absent.
C15_LaunchOnFirstRequest ==
    /\ [](NoPostgresRequestYet => spawned = 0 /\ process = None)
    /\ [](spawned = 0 <=> process = None)
    /\ [][\A t \in Threads :
            (pc[t] = "lock" /\ pc'[t] \in {"launch", "apply"})
            => (pc'[t] = "launch" <=> process = None)]_vars
    /\ [][spawned' # spawned =>
            \E t \in Threads :
                /\ pc[t] = "launch" /\ holder = t /\ process = None
                /\ process' = spawned' /\ spawned' = spawned + 1]_vars

\* The first call to the manager asked for a non-relation object and has
\* launched the process that the slot now holds.
C15_Witness ==
    \E t \in Threads :
        /\ pc[t] = "apply" /\ OnPostgres(t) /\ call[t].rel # "Relation"
        /\ call[t].id = 1 /\ ncalls = 1
        /\ spawned = 1 /\ process = 1

\* The step is the one in which the request_redo call of t on the
\* process-backed manager returns to its caller.
Returns(t) ==
    /\ OnPostgres(t)
    /\ pc[t] \in {"launch", "observe"}
    /\ pc'[t] \in {"idle", "done"}

\* C18: every request_redo call on the process-backed manager that returns,
\* with success or with an error (an error of launch included), has recorded
\* exactly one wait-time and one redo-time observation, after the guard was
\* dropped; nothing else records an observation.
C18_EveryReturnObservesOnce ==
    [][/\ \A t \in Threads :
            Returns(t) => waitObs' = waitObs + 1 /\ redoObs' = redoObs + 1
       /\ (waitObs' # waitObs \/ redoObs' # redoObs)
            => \E t \in Threads : Returns(t) /\ holder # t]_vars

\* C19: when launch returns an error value (postgresql.conf cannot be opened
\* or appended to), request_redo returns it as IoError; the failing step
\* spawns no engine, leaves the slot absent and the streams untouched and
\* drops the guard without poisoning the mutex; and a call that then takes
\* the lock with the slot absent runs launch again.
C19_LaunchErrorIsIoError ==
    /\ [](\A t \in Threads :
            cause[t] = "conf_err"
            => pc[t] = "done" /\ ret[t] = IoError /\ holder # t)
    /\ [](\A t \in Threads : (pc[t] = "done" /\ OnPostgres(t)) => ret[t] = IoError)
    /\ [][\A t \in Threads :
            (pc[t] = "launch" /\ pc'[t] = "done")
            => /\ process = None /\ process' = None
               /\ holder = t /\ holder' = None /\ ~poisoned'
               /\ UNCHANGED <<spawned, engineVars>>]_vars
    /\ [][\A t \in Threads :
            (pc[t] = "lock" /\ holder' = t /\ process = None)
            => pc'[t] = "launch"]_vars

\* After one call returned the error of launch, the next call holds the
\* lock and runs launch again; no engine has been spawned so far.
C19_Witness ==
    \E t, u \in Threads :
        /\ cause[u] = "conf_err" /\ pc[u] = "done" /\ ret[u] = IoError
        /\ pc[t] = "launch" /\ holder = t /\ call[t].id > call[u].id
        /\ spawned = 0 /\ process = None

\* The step is an iteration of the stderr loop.
StderrIterates ==
    /\ stderrTask = "reading"
    /\ debugLog' # debugLog \/ errorLog' # errorLog \/ stderrTask' # stderrTask

\* C16: the stderr loop goes on with the next line after a line that is
\* not valid UTF-8, ends on end of file, and ends on a read that fails with
\* an I/O error (so it cannot loop forever on an error that recurs).
C16_StderrLoopTerminates ==
    [][StderrIterates =>
        LET res == ReadLine(stderrPipe, stderrOpen, stderrFault) IN
        /\ res = "invalid_utf8"
             => stderrTask' = "reading" /\ stderrPipe' = Tail(stderrPipe)
        /\ res = "eof" => stderrTask' = "ended"
        /\ res = "io_error" => stderrTask' = "ended"]_vars

\* C17: the stderr task makes progress whether or not a request_redo call
\* is in progress: whenever it is in its loop and a line is waiting in the
\* child's stderr pipe, its next iteration can run.
C17_StderrDrainsWithoutRequest ==
    (stderrTask = "reading" /\ stderrPipe # <<>>) => ENABLED StderrIteration

\* A call has ended in a panic: a fatal failure of launch, or the poisoned
\* mutex that it leaves behind.
FatalFailure == \E u \in Threads : pc[u] = "panicked"

\* Thread t is inside a request_redo call on the process-backed manager.
InCall(t) ==
    pc[t] \in {"lock", "launch", "apply", "exchange", "release", "observe"}

\* C20: with a fair lock and a launch that terminates without a fatal
\* failure, every request_redo call returns, with Ok or IoError, and the
\* mutex is free again whenever a call has returned, so that no caller
\* holds it for ever.
C20_EveryCallReturns ==
    /\ \A t \in Threads : InCall(t) ~> (~InCall(t) \/ FatalFailure)
    /\ (holder # None) ~> (holder = None)
    /\ [](\A t \in Threads :
            /\ pc[t] \in {"observe", "done", "idle"} => holder # t
            /\ (pc[t] \in {"observe", "done"} /\ OnPostgres(t))
                 => ret[t].tag \in {"Ok", "IoError"})

\* A call whose exchange failed has returned its lock while the other
\* caller was queued on it, and that caller now runs its own exchange.
C20_Witness ==
    \E t, u \in Threads :
        /\ pc[u] = "observe" /\ ret[u] = IoError /\ call[u].rel = "Relation"
        /\ pc[t] = "exchange" /\ holder = t /\ call[t].id > call[u].id
        /\ ~FatalFailure

\* The engine is alive: it has not closed its streams.
EngineAlive == stdinOpen /\ stdoutOpen

\* C14 as stated: an exchange with an engine that stays alive, consumes its
\* input and emits its page always completes successfully.
C14_LiveEngineAlwaysSucceeds ==
    \A t \in Threads :
        (pc[t] = "release" /\ call[t].rel = "Relation" /\ EngineAlive)
        => ret[t].tag = "Ok"

\* The streams carry nothing but the exchange of t: units of its request,
\* and at most the one page that answers it.
OnePageExchange(t) ==
    /\ \A i \in 1..Len(stdin) : stdin[i].src = call[t].id
    /\ cur \subseteq {call[t].id}
    /\ \A i \in 1..Len(pending) : pending[i].src = call[t].id
    /\ \A i \in 1..Len(stdout) : stdout[i].src = call[t].id
    /\ \A i \in 1..Len(buf[t]) : buf[t][i].src = call[t].id

\* C14 amended: an exchange with an engine that consumes the request and
\* emits its one page ends without the help of a timer, whatever the order
\* in which the engine reads and writes and however little the pipes hold:
\* it never waits for ever with the write blocked on the engine and the
\* engine blocked on its output; and it fails only when a TIMEOUT timer has
\* fired.
C14_ExchangeEndsUnlessTimerFires ==
    /\ \A t \in Threads :
          (pc[t] = "exchange" /\ OnePageExchange(t)) ~> (pc[t] = "release")
    /\ [][\A t \in Threads : ExchangeFails(t) => elapsed[t] >= TIMEOUT]_vars

\* The read half has completed with the page of an engine that answered
\* early, while the write half is still writing the request.
C14_Witness ==
    \E t \in Threads :
        /\ pc[t] = "exchange" /\ OnePageExchange(t) /\ elapsed[t] = 0
        /\ fout[t] = "done" /\ fin[t] = "writing"
        /\ buf[t] = <<[src |-> call[t].id, n |-> BLCKSZ]>>
====
